---------------------------- MODULE Spec2Model ----------------------------
(***************************************************************************)
(* Model of DiffBotSystemHardware (hardware/diffbot_system.cpp): the       *)
(* ros2_control system component of a two-wheeled robot that talks to the  *)
(* pigpio daemon.  The component's handlers are modelled as operators over *)
(* a record of the component state and the daemon state; one action per    *)
(* handler applies the operator.  Handlers may be called in any order: the *)
(* component itself holds no lifecycle state.                              *)
(***************************************************************************)
EXTENDS Integers, Sequences, FiniteSets, TLC

VARIABLES
  cfg_,          \* Config cfg_: pi, wheel names, wheel pins, enc_counts_per_rev
  wheel_left_,   \* Wheel wheel_left_
  wheel_right_,  \* Wheel wheel_right_
  open,          \* daemon side: the handles of the connections that are open
  outputs,       \* daemon side: the GPIO pins that are in output mode
  op,            \* the handler that ran last
  ret,           \* what it returned ("EXCEPTION": it threw instead)
  calls,         \* the daemon calls it issued, in order
  arg,           \* of its argument, what the state does not show: the joints
                 \* on_init was given, the period read was given
  inited         \* how the most recent on_init ended: "never" (none ran), "ok",
                 \* "error" (it returned ERROR), "threw"

vars == <<cfg_, wheel_left_, wheel_right_, open, outputs, op, ret, calls, arg, inited>>

--------------------------------------------------------------------------
(* Bounds *)

\* pigpio_start hands out handles 0 .. MaxPi-1; with all in use it fails.
MaxPi == 2
\* The encoder count of a wheel stays within -1 .. MaxEnc.
MaxEnc == 1

--------------------------------------------------------------------------
(* double / float values.  A finite value is a whole number of             *)
(* milli-units (milliradians, milliradians per second); the IEEE specials  *)
(* are kept apart.  Division rounds toward zero.                           *)

Num(n) == [k |-> "num", v |-> n]
Inf(s) == [k |-> "inf", v |-> s]
NaN    == [k |-> "nan", v |-> 0]

Sgn(n) == IF n > 0 THEN 1 ELSE IF n < 0 THEN -1 ELSE 0
Abs(n) == IF n < 0 THEN -n ELSE n
TDiv(a, b) == Sgn(a) * Sgn(b) * (Abs(a) \div Abs(b))

\* 2*pi in milliradians
TwoPiMilli == 6283

\* a - b in double arithmetic
FSub(a, b) ==
  IF a.k = "nan" \/ b.k = "nan" THEN NaN
  ELSE IF a.k = "inf" /\ b.k = "inf" THEN (IF a.v = b.v THEN NaN ELSE a)
  ELSE IF a.k = "inf" THEN a
  ELSE IF b.k = "inf" THEN Inf(-b.v)
  ELSE Num(a.v - b.v)

\* a / delta_seconds in double arithmetic, delta_seconds = ms / 1000 >= 0
FDivSeconds(a, ms) ==
  IF a.k = "nan" THEN NaN
  ELSE IF a.k = "inf" THEN a
  ELSE IF ms = 0 THEN (IF a.v = 0 THEN NaN ELSE Inf(Sgn(a.v)))
  ELSE Num(TDiv(a.v * 1000, ms))

\* A float keeps fewer digits than a double: a finite value is rounded to the
\* nearest multiple of FloatGrain milli-units (ties away from zero).
FloatGrain == 4
to_float(a) ==
  IF a.k = "num"
  THEN Num(Sgn(a.v) * (((Abs(a.v) + FloatGrain \div 2) \div FloatGrain) * FloatGrain))
  ELSE a

--------------------------------------------------------------------------
(* std::stoi / std::stoul on a string, a sequence of characters: skip      *)
(* leading blanks, take an optional sign, then the longest run of decimal  *)
(* digits; what follows the digits is ignored.  No digit: the call throws  *)
(* std::invalid_argument.  (std::out_of_range needs a string longer than   *)
(* any the model passes.)                                                  *)

Digits == {"0", "1", "2", "3", "4", "5", "6", "7", "8", "9"}
DigitVal(c) ==
  CASE c = "0" -> 0 [] c = "1" -> 1 [] c = "2" -> 2 [] c = "3" -> 3 [] c = "4" -> 4
    [] c = "5" -> 5 [] c = "6" -> 6 [] c = "7" -> 7 [] c = "8" -> 8 [] c = "9" -> 9

RECURSIVE SkipBlanks(_)
SkipBlanks(s) == IF s # <<>> /\ Head(s) = " " THEN SkipBlanks(Tail(s)) ELSE s

RECURSIVE DigitRun(_)
DigitRun(s) ==
  IF s # <<>> /\ Head(s) \in Digits THEN <<Head(s)>> \o DigitRun(Tail(s)) ELSE <<>>

RECURSIVE DecValue(_, _)
DecValue(s, acc) ==
  IF s = <<>> THEN acc ELSE DecValue(Tail(s), acc * 10 + DigitVal(Head(s)))

\* [ok, neg, mag]: whether a number was found, its sign and its magnitude
ParseNumber(str) ==
  LET t    == SkipBlanks(str)
      sign == t # <<>> /\ Head(t) \in {"+", "-"}
      body == IF sign THEN Tail(t) ELSE t
      run  == DigitRun(body)
  IN  [ok  |-> run # <<>>,
       neg |-> sign /\ Head(t) = "-",
       mag |-> DecValue(run, 0)]

\* std::stoi: [throws, value]
stoi(str) ==
  LET p == ParseNumber(str)
  IN  [throws |-> ~p.ok, value |-> IF p.neg THEN -p.mag ELSE p.mag]

\* unsigned long is modelled ULongBits wide
ULongBits == 12
\* std::stoul: [throws, value]; a minus sign negates in unsigned arithmetic
stoul(str) ==
  LET p == ParseNumber(str)
  IN  [throws |-> ~p.ok,
       value  |-> IF p.neg THEN (2^ULongBits - p.mag) % (2^ULongBits) ELSE p.mag]

--------------------------------------------------------------------------
(* The pigpio daemon, seen through pigpiod_if2.  Its state is the set of   *)
(* open connection handles and the set of pins in output mode.             *)

\* What pigpio_start can return: a negative error (daemon unreachable, or
\* every handle in use), or a handle that is not in use.
StartResults(conns) == {-1} \cup ((0 .. MaxPi - 1) \ conns)

\* The connections open after pigpio_start returned h.
pigpio_start(conns, h) == IF h >= 0 THEN conns \cup {h} ELSE conns

\* The connections open after pigpio_stop(pi): a handle that is not open
\* (negative, or already released) is ignored.
pigpio_stop(conns, pi) == conns \ {pi}

\* set_mode(pi, gpio, PI_OUTPUT): 0 when pi is an open connection, gpio is a
\* pin of the board and the daemon accepts the request; negative otherwise.
set_mode(conns, pi, gpio, accept) ==
  IF pi \in conns /\ gpio \in 0 .. 53 /\ accept THEN 0 ELSE -1

StartCall(h)           == [fn |-> "pigpio_start", pi |-> h, gpio |-> -1, res |-> h]
\* pigpio_stop returns nothing: res is the number of connections it released
StopCall(conns, pi)    ==
  [fn |-> "pigpio_stop", pi |-> pi, gpio |-> -1, res |-> IF pi \in conns THEN 1 ELSE 0]
SetModeCall(pi, g, r)  == [fn |-> "set_mode", pi |-> pi, gpio |-> g, res |-> r]

--------------------------------------------------------------------------
(* Wheel *)

\* Wheel::setup(name, counts_per_rev): identity and resolution are set,
\* position, velocity and command are zeroed; the encoder count is kept.
setup(w, wheel_name, counts_per_rev) ==
  [w EXCEPT !.name = wheel_name, !.counts_per_rev = counts_per_rev,
            !.pos = Num(0), !.vel = Num(0), !.cmd = Num(0)]

\* Wheel::calc_enc_angle(): enc / counts_per_rev * 2*pi, in double arithmetic
calc_enc_angle(w) ==
  IF w.counts_per_rev = 0
  THEN (IF w.enc = 0 THEN NaN ELSE Inf(Sgn(w.enc)))
  ELSE Num(TDiv(w.enc * TwoPiMilli, w.counts_per_rev))

--------------------------------------------------------------------------
(* The component and the daemon as one record, and what a handler yields   *)

State == [cfg |-> cfg_, wl |-> wheel_left_, wr |-> wheel_right_,
          open |-> open, outputs |-> outputs]

Outcome(s, r, c) ==
  [cfg |-> s.cfg, wl |-> s.wl, wr |-> s.wr, open |-> s.open, outputs |-> s.outputs,
   ret |-> r, calls |-> c]

--------------------------------------------------------------------------
(* on_init *)

\* The checks of one joint, in the order of the loop body.
JointOk(joint) ==
  /\ Len(joint.command_interfaces) = 1
  /\ joint.command_interfaces[1] = "velocity"
  /\ Len(joint.state_interfaces) = 2
  /\ joint.state_interfaces[1] = "position"
  /\ joint.state_interfaces[2] = "velocity"

\* The loop over info_.joints: ERROR at the first joint that fails a check.
RECURSIVE ValidateJoints(_)
ValidateJoints(joints) ==
  IF joints = <<>> THEN "SUCCESS"
  ELSE IF ~JointOk(Head(joints)) THEN "ERROR"
  ELSE ValidateJoints(Tail(joints))

\* on_init from the parsing of the parameters on, the connection h being
\* open: s1 is the state and c1 the daemon calls so far.
init_connected(s1, info, c1) ==
  LET p  == info.hardware_parameters
      s2 == [s1 EXCEPT !.cfg.left_wheel_name = p.left_wheel_name,
                       !.cfg.right_wheel_name = p.right_wheel_name]
      lp == stoi(p.left_wheel_pin)
      rp == stoi(p.right_wheel_pin)
      cr == stoul(p.enc_counts_per_rev)
  IN
  IF lp.throws THEN Outcome(s2, "EXCEPTION", c1)
  ELSE
    LET s3 == [s2 EXCEPT !.cfg.left_wheel_pin = lp.value] IN
    IF rp.throws THEN Outcome(s3, "EXCEPTION", c1)
    ELSE
      LET s4 == [s3 EXCEPT !.cfg.right_wheel_pin = rp.value] IN
      IF cr.throws THEN Outcome(s4, "EXCEPTION", c1)
      ELSE
        LET s5 == [s4 EXCEPT !.cfg.enc_counts_per_rev = cr.value]
            s6 == [s5 EXCEPT
                     !.wl = setup(s5.wl, s5.cfg.left_wheel_name,
                                  s5.cfg.enc_counts_per_rev),
                     !.wr = setup(s5.wr, s5.cfg.right_wheel_name,
                                  s5.cfg.enc_counts_per_rev)]
        IN  Outcome(s6, ValidateJoints(info.joints), c1)

\* on_init without the return that follows a failed pigpio_start
on_init_no_return(s, info, baseOk, h) ==
  IF ~baseOk THEN Outcome(s, "ERROR", <<>>)
  ELSE init_connected([s EXCEPT !.cfg.pi = h, !.open = pigpio_start(s.open, h)],
                      info, <<StartCall(h)>>)

\* on_init(info), with baseOk the result of SystemInterface::on_init and h
\* the value pigpio_start returns.
on_init(s, info, baseOk, h) ==
  IF ~baseOk THEN Outcome(s, "ERROR", <<>>)
  ELSE
    LET s1 == [s EXCEPT !.cfg.pi = h, !.open = pigpio_start(s.open, h)]
        c1 == <<StartCall(h)>>
    IN
    IF h < 0 THEN Outcome(s1, "ERROR", c1) ELSE init_connected(s1, info, c1)

--------------------------------------------------------------------------
(* on_configure *)

\* on_configure that requests both pin modes before it looks at the results
on_configure_both_first(s, acceptL, acceptR) ==
  LET pi == s.cfg.pi
      lp == s.cfg.left_wheel_pin
      rp == s.cfg.right_wheel_pin
      rL == set_mode(s.open, pi, lp, acceptL)
      rR == set_mode(s.open, pi, rp, acceptR)
      s1 == [s EXCEPT !.outputs = s.outputs \cup (IF rL = 0 THEN {lp} ELSE {})
                                            \cup (IF rR = 0 THEN {rp} ELSE {})]
      c  == <<SetModeCall(pi, lp, rL), SetModeCall(pi, rp, rR)>>
  IN
  IF rL # 0 \/ rR # 0
  THEN Outcome([s1 EXCEPT !.open = pigpio_stop(s1.open, pi)], "ERROR",
               c \o <<StopCall(s1.open, pi)>>)
  ELSE Outcome(s1, "SUCCESS", c)

\* on_configure(), with acceptL / acceptR whether the daemon accepts the
\* pin-mode request for the left / right pin.
on_configure(s, acceptL, acceptR) ==
  LET pi == s.cfg.pi
      lp == s.cfg.left_wheel_pin
      rp == s.cfg.right_wheel_pin
      rL == set_mode(s.open, pi, lp, acceptL)
  IN
  IF rL # 0
  THEN Outcome([s EXCEPT !.open = pigpio_stop(s.open, pi)], "ERROR",
               <<SetModeCall(pi, lp, rL), StopCall(s.open, pi)>>)
  ELSE
    LET s1 == [s EXCEPT !.outputs = s.outputs \cup {lp}]
        rR == set_mode(s1.open, pi, rp, acceptR)
    IN
    IF rR # 0
    THEN Outcome([s1 EXCEPT !.open = pigpio_stop(s1.open, pi)], "ERROR",
                 <<SetModeCall(pi, lp, rL), SetModeCall(pi, rp, rR), StopCall(s1.open, pi)>>)
    ELSE Outcome([s1 EXCEPT !.outputs = s1.outputs \cup {rp}], "SUCCESS",
                 <<SetModeCall(pi, lp, rL), SetModeCall(pi, rp, rR)>>)

--------------------------------------------------------------------------
(* on_activate, on_deactivate, on_shutdown *)

\* on_activate that puts the wheel pins in output mode once more
on_activate_enables(s) ==
  LET r == set_mode(s.open, s.cfg.pi, s.cfg.left_wheel_pin, TRUE) IN
  Outcome([s EXCEPT !.outputs = IF r = 0 THEN s.outputs \cup {s.cfg.left_wheel_pin}
                                           ELSE s.outputs],
          "SUCCESS", <<SetModeCall(s.cfg.pi, s.cfg.left_wheel_pin, r)>>)

on_activate(s) == Outcome(s, "SUCCESS", <<>>)

on_deactivate(s) == Outcome(s, "SUCCESS", <<>>)

\* on_shutdown that refuses to run without a handle
on_shutdown_guarded(s) ==
  IF s.cfg.pi < 0 THEN Outcome(s, "ERROR", <<>>)
  ELSE Outcome([s EXCEPT !.open = pigpio_stop(s.open, s.cfg.pi)], "SUCCESS",
               <<StopCall(s.open, s.cfg.pi)>>)

on_shutdown(s) ==
  Outcome([s EXCEPT !.open = pigpio_stop(s.open, s.cfg.pi)], "SUCCESS",
          <<StopCall(s.open, s.cfg.pi)>>)

--------------------------------------------------------------------------
(* read, write *)

\* a + b in double arithmetic
FAdd(a, b) == FSub(a, IF b.k = "nan" THEN b ELSE [b EXCEPT !.v = -b.v])

\* read that adds the encoder angle to the position it had
read_wheel_integrates(w, ms) ==
  LET pos_prev == to_float(w.pos)
      pos      == FAdd(w.pos, calc_enc_angle(w))
  IN  [w EXCEPT !.pos = pos, !.vel = FDivSeconds(FSub(pos, pos_prev), ms)]

\* One wheel's part of read: pos_prev is a float.
read_wheel(w, ms) ==
  LET pos_prev == to_float(w.pos)
      pos      == calc_enc_angle(w)
  IN  [w EXCEPT !.pos = pos, !.vel = FDivSeconds(FSub(pos, pos_prev), ms)]

\* read that also clears the commands
read_clears_command(s, ms) ==
  Outcome([s EXCEPT !.wl = [read_wheel(s.wl, ms) EXCEPT !.cmd = Num(0)],
                    !.wr = [read_wheel(s.wr, ms) EXCEPT !.cmd = Num(0)]],
          "OK", <<>>)

\* read(time, period), period = ms milliseconds
read(s, ms) ==
  Outcome([s EXCEPT !.wl = read_wheel(s.wl, ms), !.wr = read_wheel(s.wr, ms)],
          "OK", <<>>)

\* write that reports the commands as the velocities
write_actuates(s) ==
  Outcome([s EXCEPT !.wl.vel = s.wl.cmd, !.wr.vel = s.wr.cmd], "OK", <<>>)

\* write(time, period): the body is empty
write(s) == Outcome(s, "OK", <<>>)

--------------------------------------------------------------------------
(* Inputs *)

\* info_.hardware_parameters[key] of a key that is absent is the empty string.
GoodParams ==
  [left_wheel_name |-> "left", right_wheel_name |-> "right",
   left_wheel_pin |-> <<"4">>, right_wheel_pin |-> <<"1", "7">>,
   enc_counts_per_rev |-> <<"2">>]

Joint(c, st) == [command_interfaces |-> c, state_interfaces |-> st]
GoodJoint == Joint(<<"velocity">>, <<"position", "velocity">>)
GoodJoints == <<GoodJoint, GoodJoint>>

Info(p, j) == [hardware_parameters |-> p, joints |-> j]

\* Parameter maps with a missing or malformed value, or a zero resolution.
BadParamMaps ==
  { [GoodParams EXCEPT !.left_wheel_pin = <<>>],
    [GoodParams EXCEPT !.right_wheel_pin = <<"x">>],
    [GoodParams EXCEPT !.enc_counts_per_rev = <<>>],
    [GoodParams EXCEPT !.enc_counts_per_rev = <<"0">>] }

\* Parameter maps that parse to the values of GoodParams or to other values.
OddParamMaps ==
  { [GoodParams EXCEPT !.left_wheel_pin = <<" ", "4", "x">>],
    [GoodParams EXCEPT !.left_wheel_pin = <<"-", "4">>] }

\* One joint failing each check of the loop body.
BadJoints ==
  { Joint(<<>>, <<"position", "velocity">>),
    Joint(<<"velocity", "velocity">>, <<"position", "velocity">>),
    Joint(<<"position">>, <<"position", "velocity">>),
    Joint(<<"velocity">>, <<"position">>),
    Joint(<<"velocity">>, <<"position", "velocity", "effort">>),
    Joint(<<"velocity">>, <<"velocity", "position">>),
    Joint(<<"velocity">>, <<"position", "position">>) }

\* The descriptions the lifecycle is tried with.
Infos ==
  {Info(GoodParams, GoodJoints), Info(GoodParams, <<>>)}
    \cup {Info(p, GoodJoints) : p \in BadParamMaps \cup OddParamMaps}
    \cup {Info(GoodParams, <<j>>) : j \in BadJoints}
    \cup {Info(GoodParams, <<GoodJoint, Joint(<<"velocity">>, <<"position">>)>>)}
    \cup {Info(p, <<Joint(<<>>, <<"position", "velocity">>)>>) : p \in BadParamMaps}

\* The descriptions the estimator is tried with: two resolutions, and zero.
EstimatorInfos ==
  { Info(GoodParams, GoodJoints),
    Info([GoodParams EXCEPT !.enc_counts_per_rev = <<"3">>], GoodJoints),
    Info([GoodParams EXCEPT !.enc_counts_per_rev = <<"0">>], GoodJoints) }

--------------------------------------------------------------------------
(* Initial state: the component as constructed, no connection open *)

NewWheel == [name |-> "", counts_per_rev |-> 0, enc |-> 0,
             pos |-> Num(0), vel |-> Num(0), cmd |-> Num(0)]

NewConfig == [pi |-> -1, left_wheel_name |-> "", right_wheel_name |-> "",
              left_wheel_pin |-> 0, right_wheel_pin |-> 0, enc_counts_per_rev |-> 0]

\* the argument of a handler that takes none
NoArg == [none |-> TRUE]

Init ==
  /\ cfg_ = NewConfig
  /\ wheel_left_ = NewWheel
  /\ wheel_right_ = NewWheel
  /\ open = {}
  /\ outputs = {}
  /\ op = "none"
  /\ ret = "none"
  /\ calls = <<>>
  /\ arg = NoArg
  /\ inited = "never"

--------------------------------------------------------------------------
(* Actions.  The actions that take inputs are given the sets to draw from. *)

\* The handler `name` ran and yielded r.
Apply(name, r) ==
  /\ cfg_' = r.cfg
  /\ wheel_left_' = r.wl
  /\ wheel_right_' = r.wr
  /\ open' = r.open
  /\ outputs' = r.outputs
  /\ op' = name
  /\ ret' = r.ret
  /\ calls' = r.calls

OnInit(infos, handles) ==
  \E info \in infos, baseOk \in BOOLEAN :
    \E h \in (IF baseOk THEN handles ELSE {-1}) :
      \E r \in {on_init(State, info, baseOk, h)} :
        /\ Apply("on_init", r)
        /\ arg' = [joints |-> info.joints]
        /\ inited' = CASE r.ret = "SUCCESS" -> "ok"
                        [] r.ret = "ERROR" -> "error"
                        [] r.ret = "EXCEPTION" -> "threw"

OnConfigure ==
  \E acceptL \in BOOLEAN, acceptR \in BOOLEAN :
    \E r \in {on_configure(State, acceptL, acceptR)} :
      /\ Apply("on_configure", r)
      /\ arg' = NoArg
      /\ UNCHANGED inited

OnActivate ==
  \E r \in {on_activate(State)} : Apply("on_activate", r) /\ arg' = NoArg /\ UNCHANGED inited

OnDeactivate ==
  \E r \in {on_deactivate(State)} : Apply("on_deactivate", r) /\ arg' = NoArg /\ UNCHANGED inited

OnShutdown ==
  \E r \in {on_shutdown(State)} : Apply("on_shutdown", r) /\ arg' = NoArg /\ UNCHANGED inited

\* periods in milliseconds
Read(periods) ==
  \E ms \in periods :
    \E r \in {read(State, ms)} :
      Apply("read", r) /\ arg' = [ms |-> ms] /\ UNCHANGED inited

Write ==
  \E r \in {write(State)} : Apply("write", r) /\ arg' = NoArg /\ UNCHANGED inited

\* The controller writes a wheel's command, in milliradians per second,
\* through its command interface.
SetCommand(commands) ==
  \E v \in commands :
    /\ \/ wheel_left_' = [wheel_left_ EXCEPT !.cmd = Num(v)] /\ UNCHANGED wheel_right_
       \/ wheel_right_' = [wheel_right_ EXCEPT !.cmd = Num(v)] /\ UNCHANGED wheel_left_
    /\ op' = "command" /\ ret' = "none" /\ calls' = <<>> /\ arg' = NoArg
    /\ UNCHANGED <<cfg_, open, outputs, inited>>

\* A wheel turns: its encoder count moves by one tick within lo .. hi.
EncoderTick(lo, hi) ==
  \E d \in {-1, 1} :
    /\ \/ /\ wheel_left_.enc + d \in lo .. hi
          /\ wheel_left_' = [wheel_left_ EXCEPT !.enc = @ + d]
          /\ UNCHANGED wheel_right_
       \/ /\ wheel_right_.enc + d \in lo .. hi
          /\ wheel_right_' = [wheel_right_ EXCEPT !.enc = @ + d]
          /\ UNCHANGED wheel_left_
    /\ op' = "encoder" /\ ret' = "none" /\ calls' = <<>> /\ arg' = NoArg
    /\ UNCHANGED <<cfg_, open, outputs, inited>>

--------------------------------------------------------------------------
(* Spec: the lifecycle.  Every handler, with every description and every   *)
(* answer of the daemon; the wheels stand still and the controller writes  *)
(* no command.                                                             *)

Next ==
  \/ OnInit(Infos, StartResults(open))
  \/ OnConfigure
  \/ OnActivate
  \/ OnDeactivate
  \/ OnShutdown
  \/ Read({1000})
  \/ Write

Spec == Init /\ [][Next]_vars

--------------------------------------------------------------------------
(* SpecEst: the control cycle.  The wheels turn, the controller writes     *)
(* commands, the period of a read varies and may be zero; the description  *)
(* is one that on_init accepts and the daemon hands out handle 0 or is     *)
(* unreachable.                                                            *)

\* periods of a read, in milliseconds
Periods == {0, 500}

\* velocity commands the controller writes, in milliradians per second
Commands == {1000}

NextEst ==
  \/ OnInit(EstimatorInfos, StartResults(open) \cap {-1, 0})
  \/ Read(Periods)
  \/ Write
  \/ SetCommand(Commands)
  \/ EncoderTick(-1, MaxEnc)

SpecEst == Init /\ [][NextEst]_vars

--------------------------------------------------------------------------
(* Claims *)

\* What the component and the daemon hold, apart from the record of the
\* last call.
Held == <<cfg_, wheel_left_, wheel_right_, open, outputs>>

\* C1: after a configure that fails, the stored handle is the not-connected
\* sentinel (negative) and names no open connection.
C1_FailedConfigureDisconnected ==
  (op = "on_configure" /\ ret = "ERROR") => (cfg_.pi < 0 /\ cfg_.pi \notin open)

\* C2: when initialize returns an error after the connection was opened,
\* the connection it opened has been released.
C2_FailedInitReleases ==
  (op = "on_init" /\ ret = "ERROR" /\ calls # <<>> /\ calls[1].res >= 0)
    => calls[1].res \notin open

\* C3: shutdown returns success from any state, and a shutdown that follows
\* a shutdown leaves the component and the daemon as they were.
C3_ShutdownIdempotent ==
  [][op' = "on_shutdown" =>
       /\ ret' = "SUCCESS"
       /\ op = "on_shutdown" => (Held' = Held /\ ret' = ret)]_vars

\* A shutdown, after a successful initialize, of a handle that was already
\* released: it released nothing.
C3_Witness ==
  /\ op = "on_shutdown" /\ ret = "SUCCESS" /\ inited = "ok"
  /\ cfg_.pi >= 0
  /\ calls = <<StopCall({}, cfg_.pi)>>

\* C4: configure without a prior successful initialize (none ran, or the
\* last one returned an error) returns an error and no pin-mode call of it
\* succeeds.
C4_ConfigureNeedsInit ==
  (op = "on_configure" /\ inited \in {"never", "error"})
    => /\ ret = "ERROR"
       /\ \A i \in 1 .. Len(calls) : calls[i].fn = "set_mode" => calls[i].res # 0

\* C5: after a successful initialize both wheels have a resolution above 0.
C5_ResolutionPositive ==
  inited = "ok" => /\ wheel_left_.counts_per_rev > 0
                   /\ wheel_right_.counts_per_rev > 0

\* C6: initialize ends by returning SUCCESS or ERROR, never by throwing.
C6_InitNeverThrows ==
  op = "on_init" => ret \in {"SUCCESS", "ERROR"}

\* C7: write returns OK, issues no daemon call and leaves the configuration,
\* both wheels and the daemon as they were.
C7_WriteNoEffect ==
  [][op' = "write" => (ret' = "OK" /\ calls' = <<>> /\ Held' = Held)]_vars

\* A write with a command pending on the left wheel and a connection open.
C7_Witness ==
  /\ op = "write" /\ ret = "OK"
  /\ wheel_left_.cmd = Num(1000) /\ wheel_right_.cmd = Num(0)
  /\ wheel_left_.vel # wheel_left_.cmd
  /\ cfg_.pi \in open

\* The shape on_init wants of a joint: one command interface, velocity, and
\* two state interfaces, position then velocity.
WellShaped(joint) ==
  /\ joint.command_interfaces = <<"velocity">>
  /\ joint.state_interfaces = <<"position", "velocity">>

\* C8: initialize returns success only if the connection opened and every
\* joint is well shaped, and returns an error if some joint is not.
C8_InitValidatesJoints ==
  op = "on_init" =>
    /\ ret = "SUCCESS" =>
         /\ cfg_.pi \in open
         /\ \A i \in 1 .. Len(arg.joints) : WellShaped(arg.joints[i])
    /\ (\E i \in 1 .. Len(arg.joints) : ~WellShaped(arg.joints[i])) => ret = "ERROR"

\* C9: when pigpio_start yields a negative handle, initialize has made that
\* one daemon call and no other, returns an error, and has changed nothing
\* but the stored handle.
C9_UnreachableDaemonAborts ==
  [][(op' = "on_init" /\ calls' # <<>> /\ calls'[1].res < 0) =>
       /\ ret' = "ERROR"
       /\ calls' = <<StartCall(calls'[1].res)>>
       /\ cfg_' = [cfg_ EXCEPT !.pi = calls'[1].res]
       /\ UNCHANGED <<wheel_left_, wheel_right_, open, outputs>>]_vars

\* An initialize, given well-shaped joints, that found the daemon
\* unreachable while an earlier configuration is in place.
C9_Witness ==
  /\ op = "on_init" /\ ret = "ERROR" /\ inited = "error"
  /\ calls = <<StartCall(-1)>>
  /\ arg.joints = GoodJoints
  /\ cfg_.pi = -1 /\ cfg_.left_wheel_pin = 4

\* The position the claim gives: ticks / counts_per_revolution * 2*pi.
ExpectedPosition(ticks, n) == calc_enc_angle([enc |-> ticks, counts_per_rev |-> n])

\* C10: read returns OK and sets each wheel's position to the value given by
\* that wheel's encoder count and resolution alone.
C10_ReadRecomputesPosition ==
  [][op' = "read" =>
       /\ ret' = "OK"
       /\ wheel_left_'.pos =
            ExpectedPosition(wheel_left_.enc, wheel_left_.counts_per_rev)
       /\ wheel_right_'.pos =
            ExpectedPosition(wheel_right_.enc, wheel_right_.counts_per_rev)]_vars

\* A read that found the left wheel where the read before had left it, one
\* tick back, and the right wheel one tick forward.
C10_Witness ==
  /\ op = "read" /\ ret = "OK" /\ arg.ms = 500
  /\ wheel_left_.enc = -1 /\ wheel_left_.pos = Num(-3141) /\ wheel_left_.vel = Num(-2)
  /\ wheel_right_.enc = 1 /\ wheel_right_.pos = Num(3141)

\* (p1 - p0) / dt, dt = ms / 1000 seconds
BackwardDifference(p1, p0, ms) == FDivSeconds(FSub(p1, p0), ms)

\* C11: a read with a period above zero sets each wheel's velocity to
\* (p1 - p0) / dt, p1 the position the read computed and p0 exactly the
\* position the wheel held before the read.
C11_VelocityIsBackwardDifference ==
  [][(op' = "read" /\ arg'.ms > 0) =>
       /\ wheel_left_'.vel =
            BackwardDifference(wheel_left_'.pos, wheel_left_.pos, arg'.ms)
       /\ wheel_right_'.vel =
            BackwardDifference(wheel_right_'.pos, wheel_right_.pos, arg'.ms)]_vars

\* C12: no disconnect is issued for a connection that has been released:
\* every pigpio_stop of a handle the daemon handed out releases a connection
\* that is open.
C12_ReleasedAtMostOnce ==
  \A i \in 1 .. Len(calls) :
    (calls[i].fn = "pigpio_stop" /\ calls[i].pi >= 0) => calls[i].res = 1

\* C13: configure sends no set_mode on a handle whose connection has been
\* released: the handle of every set_mode it issues names a connection that is
\* open when configure starts.
C13_SetModeOnOpenConnection ==
  [][op' = "on_configure" =>
       \A i \in 1 .. Len(calls') :
         (calls'[i].fn = "set_mode" /\ calls'[i].pi >= 0) => calls'[i].pi \in open]_vars

\* C14: at most one connection is open, and an open connection is the one the
\* stored handle names.
C14_OneReferencedConnection ==
  open \subseteq {cfg_.pi}

IsSetMode(c) == c.fn = "set_mode"

\* C15: configure requests the left pin's mode first; it returns success
\* exactly when it issued two set_mode calls, the second for the right pin,
\* and both succeeded; on success both wheel pins are in output mode and the
\* connection is open; when the left call fails no second set_mode is issued.
C15_ConfigureSetsBothPins ==
  op = "on_configure" =>
    LET sm == SelectSeq(calls, IsSetMode) IN
      /\ ret \in {"SUCCESS", "ERROR"}
      /\ calls # <<>> /\ IsSetMode(calls[1])
      /\ calls[1].gpio = cfg_.left_wheel_pin
      /\ ret = "SUCCESS" <=>
           /\ Len(sm) = 2
           /\ sm[2].gpio = cfg_.right_wheel_pin
           /\ sm[1].res = 0 /\ sm[2].res = 0
      /\ ret = "SUCCESS" =>
           /\ calls = sm
           /\ {cfg_.left_wheel_pin, cfg_.right_wheel_pin} \subseteq outputs
           /\ cfg_.pi \in open
      /\ calls[1].res # 0 => Len(sm) = 1

\* A configure that succeeded after a successful initialize: pins 4 and 17
\* are outputs.
C15_Witness ==
  /\ op = "on_configure" /\ ret = "SUCCESS" /\ inited = "ok"
  /\ cfg_.left_wheel_pin = 4 /\ cfg_.right_wheel_pin = 17
  /\ outputs = {4, 17}
  /\ cfg_.pi \in open

\* C16: read changes nothing but the two wheels' position and velocity, and
\* issues no daemon call.
C16_ReadFrame ==
  [][op' = "read" =>
       /\ calls' = <<>>
       /\ UNCHANGED <<cfg_, open, outputs>>
       /\ wheel_left_' =
            [wheel_left_ EXCEPT !.pos = wheel_left_'.pos, !.vel = wheel_left_'.vel]
       /\ wheel_right_' =
            [wheel_right_ EXCEPT !.pos = wheel_right_'.pos,
                                 !.vel = wheel_right_'.vel]]_vars

\* A read that moved the left wheel's position while a command was pending
\* on it and a connection was open.
C16_Witness ==
  /\ op = "read" /\ ret = "OK"
  /\ wheel_left_.cmd = Num(1000)
  /\ wheel_left_.pos = Num(2094) /\ wheel_left_.vel = Num(4188)
  /\ cfg_.pi \in open

\* C17: activate and deactivate return success, issue no daemon call and
\* leave the configuration, both wheels and the daemon as they were.
C17_ActivateDeactivateNoAction ==
  [][op' \in {"on_activate", "on_deactivate"} =>
       (ret' = "SUCCESS" /\ calls' = <<>> /\ Held' = Held)]_vars

\* A deactivate with the connection open and both wheel pins in output mode.
C17_Witness ==
  /\ op = "on_deactivate" /\ ret = "SUCCESS"
  /\ cfg_.pi \in open
  /\ outputs = {4, 17}

==========================================================================
